---- MODULE Spec2Model ----
(***************************************************************************)
(* Best-fit memory manager (src/src/lib.rs): a fixed byte arena, a free    *)
(* index keyed by block length, an allocated table keyed by id and a       *)
(* monotonically increasing id counter.                                    *)
(***************************************************************************)
EXTENDS Integers, Sequences, FiniteSets, TLC

\* ---------------------------------------------------------------- bounds
\* Scaled-down arena size (lib.rs:8 sets 65535).
MEMORY_SIZE == 3
\* Longest payload handed to insert/update.
MaxDataLen == 2
\* Number of identifiers the model lets insert issue (next_id stays <= MaxId).
MaxId == 2

\* Payload byte values; the arena starts zeroed so 0 is kept apart.
Byte == {1, 2}
\* Option::None for MemoryBlock.id and for "no id returned".
None == -1

\* A payload of n bytes that starts with b and alternates between the two values.
Payload(b, n) == [i \in 1..n |-> IF i % 2 = 1 THEN b ELSE 3 - b]

\* Inputs the callers are drawn from. insert is given payloads that start
\* with 1 and update payloads that start with 2, so that an update of a block
\* never writes the bytes the insert put there.
Datas == {Payload(1, n) : n \in 0..MaxDataLen}
NewDatas == {Payload(2, n) : n \in 0..MaxDataLen}
Sizes == 0..(MEMORY_SIZE + 1)
Ids == 0..MaxId

VARIABLES
    memory,            \* [u8; MEMORY_SIZE]
    free_blocks,       \* BTreeMap<usize, Vec<MemoryBlock>>: size -> list of blocks
    allocated_blocks,  \* BTreeMap<usize, MemoryBlock>: id -> block
    next_id,           \* usize
    panicked,          \* the thread has panicked inside a call and is unwinding
    last,              \* the most recent call: arguments, result, locals
    issued,            \* ids returned by successful insert calls, in call order
    reqSum,            \* sizes requested by insert since new() or the last delete;
                       \* MEMORY_SIZE + 1 stands for any larger sum, and is taken
                       \* as soon as one of those inserts has returned None
    oomSeen,           \* some insert has returned None since new() or the last delete
    released,          \* ids whose block a successful delete has released
    proc,              \* process_file: its position, the line it handled, what it printed
    frame              \* a call of next_largest: request, power, its position, the build

engine == <<memory, free_blocks, allocated_blocks, next_id>>
history == <<issued, reqSum, oomSeen, released>>
vars == <<memory, free_blocks, allocated_blocks, next_id, panicked, last,
          issued, reqSum, oomSeen, released, proc, frame>>

\* struct MemoryBlock
MemoryBlock(start, size, allocated, id) ==
    [start |-> start, size |-> size, allocated |-> allocated, id |-> id]

\* Record of the most recent call: op, the size and data arguments, the id
\* argument (or the id returned), the outcome, the Option<&[u8]> returned or
\* printed (<<>> for None, <<bytes>> for Some) and the length of the free
\* block insert took (its local block.size).
Call(op, size, data, id, res, view, len) ==
    [op |-> op, size |-> size, data |-> data, id |-> id, res |-> res,
     view |-> view, len |-> len]

\* Mutant of Init: the identifier counter starts at 1.
InitNextIdOne ==
    /\ memory = [a \in 0..(MEMORY_SIZE - 1) |-> 0]
    /\ free_blocks = (MEMORY_SIZE :> <<MemoryBlock(0, MEMORY_SIZE, FALSE, None)>>)
    /\ allocated_blocks = <<>>
    /\ next_id = 1
    /\ panicked = FALSE
    /\ last = Call("new", 0, <<>>, None, "ok", <<>>, 0)
    /\ issued = <<>>
    /\ reqSum = 0
    /\ oomSeen = FALSE
    /\ released = {}
    /\ proc = [pc |-> "reading", line |-> <<>>, diag |-> "none", called |-> FALSE]
    /\ frame = [request |-> 0, power |-> 1, pc |-> "idle", build |-> "debug"]

\* MemoryManager::new
Init ==
    /\ memory = [a \in 0..(MEMORY_SIZE - 1) |-> 0]
    /\ free_blocks = (MEMORY_SIZE :> <<MemoryBlock(0, MEMORY_SIZE, FALSE, None)>>)
    /\ allocated_blocks = <<>>
    /\ next_id = 0
    /\ panicked = FALSE
    /\ last = Call("new", 0, <<>>, None, "ok", <<>>, 0)
    /\ issued = <<>>
    /\ reqSum = 0
    /\ oomSeen = FALSE
    /\ released = {}
    /\ proc = [pc |-> "reading", line |-> <<>>, diag |-> "none", called |-> FALSE]
    /\ frame = [request |-> 0, power |-> 1, pc |-> "idle", build |-> "debug"]

\* ------------------------------------------------------------- helpers
Min(S) == CHOOSE x \in S : \A y \in S : x <= y

Max(S) == CHOOSE x \in S : \A y \in S : x >= y

\* Vec::remove(index)
RemoveAt(s, i) == SubSeq(s, 1, i - 1) \o SubSeq(s, i + 1, Len(s))

\* BTreeMap::remove(&key)
MapRemove(m, k) == [x \in (DOMAIN m) \ {k} |-> m[x]]

\* BTreeMap::insert(key, value)
MapInsert(m, k, v) == [x \in (DOMAIN m) \cup {k} |-> IF x = k THEN v ELSE m[x]]

\* Mutant of PushFree: merges the block into a free block that ends where it starts.
PushFreeCoalescing(fb, block) ==
    LET before == {<<k, i>> \in {<<k, i>> \in (DOMAIN fb) \X (1..MEMORY_SIZE) : i <= Len(fb[k])} :
                       fb[k][i].size > 0 /\ fb[k][i].start + fb[k][i].size = block.start}
    IN IF before = {} \/ block.size = 0
       THEN IF block.size \in DOMAIN fb
            THEN [fb EXCEPT ![block.size] = Append(@, block)]
            ELSE MapInsert(fb, block.size, <<block>>)
       ELSE LET h == CHOOSE h \in before : TRUE
                g == fb[h[1]][h[2]]
                rest == RemoveAt(fb[h[1]], h[2])
                fb1 == IF rest = <<>> THEN MapRemove(fb, h[1]) ELSE [fb EXCEPT ![h[1]] = rest]
                m == [start |-> g.start, size |-> g.size + block.size,
                      allocated |-> FALSE, id |-> None]
            IN IF m.size \in DOMAIN fb1
               THEN [fb1 EXCEPT ![m.size] = Append(@, m)]
               ELSE MapInsert(fb1, m.size, <<m>>)

\* self.free_blocks.entry(block.size).or_insert_with(Vec::new).push(block)
PushFree(fb, block) ==
    IF block.size \in DOMAIN fb
    THEN [fb EXCEPT ![block.size] = Append(@, block)]
    ELSE MapInsert(fb, block.size, <<block>>)

\* &self.memory[start..start + size]
Slice(mem, start, size) == [i \in 1..size |-> mem[start + i - 1]]

\* Mutant of CopyFromSlice: stops one byte short.
CopyOneShort(mem, start, data, n) ==
    [a \in DOMAIN mem |->
        IF a >= start /\ a < start + n - 1 THEN data[a - start + 1] ELSE mem[a]]

\* self.memory[start..start + n].copy_from_slice(&data[..n])
CopyFromSlice(mem, start, data, n) ==
    [a \in DOMAIN mem |->
        IF a >= start /\ a < start + n THEN data[a - start + 1] ELSE mem[a]]

\* Mutant of FitKeys: the range starts above size, so an exact fit is passed over.
FitKeysStrict(fb, size) ==
    {k \in DOMAIN fb : k > size /\ \E i \in 1..Len(fb[k]) : fb[k][i].size >= size}

\* The range_mut(size..) loop of insert: keys >= size that hold a fitting block.
FitKeys(fb, size) ==
    {k \in DOMAIN fb : k >= size /\ \E i \in 1..Len(fb[k]) : fb[k][i].size >= size}

\* Mutant of ChosenKey: worst fit, the last key of the range.
ChosenKeyWorst(fb, size) == Max(FitKeys(fb, size))

\* chosen_key: the first key of the range, in ascending order, with a fitting block.
ChosenKey(fb, size) == Min(FitKeys(fb, size))

\* Mutant of ChosenIndex: the block pushed last is taken.
ChosenIndexNewest(fb, size) ==
    LET k == ChosenKey(fb, size)
    IN Max({i \in 1..Len(fb[k]) : fb[k][i].size >= size})

\* chosen_index: iter().enumerate().find(..), 1-based here.
ChosenIndex(fb, size) ==
    LET k == ChosenKey(fb, size)
    IN Min({i \in 1..Len(fb[k]) : fb[k][i].size >= size})

\* Mutant of RemoveChosen: the key of an emptied list is left in the map.
RemoveChosenNoCleanup(fb, key, index) ==
    [fb EXCEPT ![key] = RemoveAt(fb[key], index)]

\* free_blocks after blocks.remove(index) and the empty-key clean-up.
RemoveChosen(fb, key, index) ==
    LET rest == RemoveAt(fb[key], index)
    IN IF rest = <<>> THEN MapRemove(fb, key) ELSE [fb EXCEPT ![key] = rest]

\* Mutant of AddLeftover: a leftover is pushed even when nothing is left over.
AddLeftoverAlways(fb, block, size) ==
    IF block.size >= size
    THEN PushFree(fb, MemoryBlock(block.start + size, block.size - size, FALSE, None))
    ELSE fb

\* Mutant of AddLeftover: the leftover keeps the length of the whole block.
AddLeftoverFullSize(fb, block, size) ==
    IF block.size > size
    THEN PushFree(fb, MemoryBlock(block.start + size, block.size, FALSE, None))
    ELSE fb

\* free_blocks after the leftover of the chosen block is pushed back.
AddLeftover(fb, block, size) ==
    IF block.size > size
    THEN PushFree(fb, MemoryBlock(block.start + size, block.size - size, FALSE, None))
    ELSE fb

\* Mutant of NextId: the counter is not advanced.
NextIdStuck(n) == n

\* self.next_id += 1
NextId(n) == n + 1

\* The lookup and slice of find/read on a given arena and table:
\* <<>> is None, <<bytes>> is Some(bytes).
findIn(mem, alloc, id) ==
    IF id \in DOMAIN alloc
    THEN <<Slice(mem, alloc[id].start, alloc[id].size)>>
    ELSE <<>>

\* MemoryManager::find
find(id) == findIn(memory, allocated_blocks, id)

\* Bookkeeping of the call history for an insert call.
NoteInsert(size, res, id) ==
    /\ issued' = IF res = "ok" THEN Append(issued, id) ELSE issued
    /\ reqSum' = IF oomSeen \/ res = "none"
                  THEN MEMORY_SIZE + 1
                  ELSE Min({reqSum + size, MEMORY_SIZE + 1})
    /\ oomSeen' = (oomSeen \/ res = "none")
    /\ UNCHANGED released

\* ------------------------------------------------------------- actions
\* The callers of the model stop asking for blocks that insert would grant
\* once maxId identifiers have been issued; requests that find no block go on.
IdsLeft(size, maxId) == FitKeys(free_blocks, size) # {} => next_id < maxId

\* Mutant of insertNone: a failed search still consumes an identifier.
insertNoneBumpsId(size, data) ==
    /\ last' = Call("insert", size, data, None, "none", <<>>, 0)
    /\ next_id' = next_id + 1
    /\ NoteInsert(size, "none", None)
    /\ UNCHANGED <<memory, free_blocks, allocated_blocks, panicked>>

\* insert, no block chosen: return None
insertNone(size, data) ==
    /\ last' = Call("insert", size, data, None, "none", <<>>, 0)
    /\ NoteInsert(size, "none", None)
    /\ UNCHANGED <<memory, free_blocks, allocated_blocks, next_id, panicked>>

\* insert, a block is chosen but data is shorter than size: &data[..size]
\* panics after the block was taken out of the free index and the id issued.
insertPanic(size, data) ==
    LET key == ChosenKey(free_blocks, size)
        index == ChosenIndex(free_blocks, size)
    IN /\ free_blocks' = RemoveChosen(free_blocks, key, index)
       /\ next_id' = NextId(next_id)
       /\ panicked' = TRUE
       /\ last' = Call("insert", size, data, None, "panic", <<>>,
                       free_blocks[key][index].size)
       /\ NoteInsert(size, "panic", None)
       /\ UNCHANGED <<memory, allocated_blocks>>

\* insert, a block is chosen and the data is long enough: return Some(new_id)
insertSome(size, data) ==
    LET key == ChosenKey(free_blocks, size)
        index == ChosenIndex(free_blocks, size)
        block == free_blocks[key][index]
        new_id == next_id
    IN /\ next_id' = NextId(next_id)
       /\ memory' = CopyFromSlice(memory, block.start, data, size)
       /\ allocated_blocks' =
              MapInsert(allocated_blocks, new_id, MemoryBlock(block.start, size, TRUE, new_id))
       /\ free_blocks' = AddLeftover(RemoveChosen(free_blocks, key, index), block, size)
       /\ last' = Call("insert", size, data, new_id, "ok", <<>>, block.size)
       /\ NoteInsert(size, "ok", new_id)
       /\ UNCHANGED panicked

\* MemoryManager::insert(size, data)
insert(size, data) ==
    /\ ~panicked
    /\ IF FitKeys(free_blocks, size) = {}
       THEN insertNone(size, data)
       ELSE IF Len(data) < size
            THEN insertPanic(size, data)
            ELSE insertSome(size, data)

\* Mutant of delete: the entry is looked up but not taken out of the table.
deleteKeepsEntry(id) ==
    /\ ~panicked
    /\ IF id \in DOMAIN allocated_blocks
       THEN LET block == allocated_blocks[id]
            IN /\ UNCHANGED allocated_blocks
               /\ free_blocks' =
                      PushFree(free_blocks, MemoryBlock(block.start, block.size, FALSE, None))
               /\ last' = Call("delete", block.size, <<>>, id, "ok", <<>>, 0)
       ELSE /\ last' = Call("delete", 0, <<>>, id, "notfound", <<>>, 0)
            /\ UNCHANGED <<free_blocks, allocated_blocks>>
    /\ reqSum' = 0 /\ oomSeen' = FALSE
    /\ released' = IF id \in DOMAIN allocated_blocks THEN released \cup {id} ELSE released
    /\ UNCHANGED <<memory, next_id, panicked, issued>>

\* Mutant of delete: an unknown id still pushes an (empty) free block.
deleteDefaultBlock(id) ==
    /\ ~panicked
    /\ IF id \in DOMAIN allocated_blocks
       THEN LET block == allocated_blocks[id]
            IN /\ allocated_blocks' = MapRemove(allocated_blocks, id)
               /\ free_blocks' =
                      PushFree(free_blocks, MemoryBlock(block.start, block.size, FALSE, None))
               /\ last' = Call("delete", block.size, <<>>, id, "ok", <<>>, 0)
       ELSE /\ last' = Call("delete", 0, <<>>, id, "notfound", <<>>, 0)
            /\ free_blocks' = PushFree(free_blocks, MemoryBlock(0, 0, FALSE, None))
            /\ UNCHANGED allocated_blocks
    /\ reqSum' = 0 /\ oomSeen' = FALSE
    /\ released' = IF id \in DOMAIN allocated_blocks THEN released \cup {id} ELSE released
    /\ UNCHANGED <<memory, next_id, panicked, issued>>

\* MemoryManager::delete(id)
delete(id) ==
    /\ ~panicked
    /\ IF id \in DOMAIN allocated_blocks
       THEN LET block == allocated_blocks[id]
            IN /\ allocated_blocks' = MapRemove(allocated_blocks, id)
               /\ free_blocks' =
                      PushFree(free_blocks, MemoryBlock(block.start, block.size, FALSE, None))
               /\ last' = Call("delete", block.size, <<>>, id, "ok", <<>>, 0)
       ELSE /\ last' = Call("delete", 0, <<>>, id, "notfound", <<>>, 0)
            /\ UNCHANGED <<free_blocks, allocated_blocks>>
    /\ reqSum' = 0 /\ oomSeen' = FALSE
    /\ released' = IF id \in DOMAIN allocated_blocks THEN released \cup {id} ELSE released
    /\ UNCHANGED <<memory, next_id, panicked, issued>>

\* MemoryManager::find(id), as the FIND command calls it
Find(id) ==
    /\ ~panicked
    /\ last' = Call("find", 0, <<>>, id,
                    IF find(id) = <<>> THEN "notfound" ELSE "ok", find(id), 0)
    /\ UNCHANGED <<memory, free_blocks, allocated_blocks, next_id, panicked>>
    /\ UNCHANGED history

\* MemoryManager::read(id)
read(id) ==
    /\ ~panicked
    /\ last' = IF id \in DOMAIN allocated_blocks
               THEN LET block == allocated_blocks[id]
                    IN Call("read", 0, <<>>, id, "ok",
                            <<Slice(memory, block.start, block.size)>>, 0)
               ELSE Call("read", 0, <<>>, id, "notfound", <<>>, 0)
    /\ UNCHANGED <<memory, free_blocks, allocated_blocks, next_id, panicked>>
    /\ UNCHANGED history

\* Mutant of update: the bytes after the new data are cleared.
updateZeroFill(id, new_data) ==
    /\ ~panicked
    /\ IF id \in DOMAIN allocated_blocks
       THEN LET block == allocated_blocks[id]
            IN IF Len(new_data) <= block.size
               THEN /\ memory' =
                          [a \in DOMAIN memory |->
                              IF a >= block.start /\ a < block.start + block.size
                              THEN IF a < block.start + Len(new_data)
                                   THEN new_data[a - block.start + 1] ELSE 0
                              ELSE memory[a]]
                    /\ last' = Call("update", 0, new_data, id, "ok", <<>>, 0)
               ELSE /\ last' = Call("update", 0, new_data, id, "toolarge", <<>>, 0)
                    /\ UNCHANGED memory
       ELSE /\ last' = Call("update", 0, new_data, id, "notfound", <<>>, 0)
            /\ UNCHANGED memory
    /\ UNCHANGED <<free_blocks, allocated_blocks, next_id, panicked>>
    /\ UNCHANGED history

\* Mutant of update: a shorter payload shrinks the block to the payload's length.
updateShrinking(id, new_data) ==
    /\ ~panicked
    /\ IF id \in DOMAIN allocated_blocks
       THEN LET block == allocated_blocks[id]
            IN IF Len(new_data) <= block.size
               THEN /\ memory' = CopyFromSlice(memory, block.start, new_data, Len(new_data))
                    /\ allocated_blocks' =
                           [allocated_blocks EXCEPT ![id].size = Len(new_data)]
                    /\ last' = Call("update", 0, new_data, id, "ok", <<>>, 0)
               ELSE /\ last' = Call("update", 0, new_data, id, "toolarge", <<>>, 0)
                    /\ UNCHANGED <<memory, allocated_blocks>>
       ELSE /\ last' = Call("update", 0, new_data, id, "notfound", <<>>, 0)
            /\ UNCHANGED <<memory, allocated_blocks>>
    /\ UNCHANGED <<free_blocks, next_id, panicked>>
    /\ UNCHANGED history

\* Mutant of update: data longer than the block is cut to the block's length.
updateTruncating(id, new_data) ==
    /\ ~panicked
    /\ IF id \in DOMAIN allocated_blocks
       THEN LET block == allocated_blocks[id]
                n == Min({Len(new_data), block.size})
            IN /\ memory' = CopyFromSlice(memory, block.start, new_data, n)
               /\ last' = Call("update", 0, new_data, id,
                               IF Len(new_data) <= block.size THEN "ok" ELSE "toolarge",
                               <<>>, 0)
       ELSE /\ last' = Call("update", 0, new_data, id, "notfound", <<>>, 0)
            /\ UNCHANGED memory
    /\ UNCHANGED <<free_blocks, allocated_blocks, next_id, panicked>>
    /\ UNCHANGED history

\* Mutant of update: the length of the block is not checked, the copy runs on
\* into whatever follows the block.
updateOverflowing(id, new_data) ==
    /\ ~panicked
    /\ IF id \in DOMAIN allocated_blocks
       THEN LET block == allocated_blocks[id]
            IN /\ memory' = CopyFromSlice(memory, block.start, new_data, Len(new_data))
               /\ last' = Call("update", 0, new_data, id, "ok", <<>>, 0)
       ELSE /\ last' = Call("update", 0, new_data, id, "notfound", <<>>, 0)
            /\ UNCHANGED memory
    /\ UNCHANGED <<free_blocks, allocated_blocks, next_id, panicked>>
    /\ UNCHANGED history

\* MemoryManager::update(id, new_data)
update(id, new_data) ==
    /\ ~panicked
    /\ IF id \in DOMAIN allocated_blocks
       THEN LET block == allocated_blocks[id]
            IN IF Len(new_data) <= block.size
               THEN /\ memory' = CopyFromSlice(memory, block.start, new_data, Len(new_data))
                    /\ last' = Call("update", 0, new_data, id, "ok", <<>>, 0)
               ELSE /\ last' = Call("update", 0, new_data, id, "toolarge", <<>>, 0)
                    /\ UNCHANGED memory
       ELSE /\ last' = Call("update", 0, new_data, id, "notfound", <<>>, 0)
            /\ UNCHANGED memory
    /\ UNCHANGED <<free_blocks, allocated_blocks, next_id, panicked>>
    /\ UNCHANGED history

\* The FREE lines of dump for the keys in ks, in ascending key order, each
\* key's blocks in list order; the size printed is the key.
RECURSIVE DumpFree(_, _)
DumpFree(fb, ks) ==
    IF ks = {} THEN <<>>
    ELSE LET k == Min(ks)
         IN [i \in 1..Len(fb[k]) |-> [kind |-> "FREE", id |-> None,
                                      start |-> fb[k][i].start, size |-> k]]
            \o DumpFree(fb, ks \ {k})

\* The ALLOCATED lines of dump for the ids in ids, in ascending id order.
RECURSIVE DumpAllocated(_, _)
DumpAllocated(alloc, ids) ==
    IF ids = {} THEN <<>>
    ELSE LET id == Min(ids)
         IN <<[kind |-> "ALLOCATED", id |-> id,
               start |-> alloc[id].start, size |-> alloc[id].size]>>
            \o DumpAllocated(alloc, ids \ {id})

\* Mutant of DumpReport: only the first block of each free list is printed.
DumpReportFirstOnly(fb, alloc) ==
    DumpFree([k \in DOMAIN fb |-> SubSeq(fb[k], 1, 1)], DOMAIN fb)
    \o DumpAllocated(alloc, DOMAIN alloc)

\* The lines dump prints after "Memory Dump:".
DumpReport(fb, alloc) == DumpFree(fb, DOMAIN fb) \o DumpAllocated(alloc, DOMAIN alloc)

\* MemoryManager::dump; the lines printed are kept in the view field.
dump ==
    /\ ~panicked
    /\ last' = Call("dump", 0, <<>>, None, "ok", DumpReport(free_blocks, allocated_blocks), 0)
    /\ UNCHANGED <<memory, free_blocks, allocated_blocks, next_id, panicked>>
    /\ UNCHANGED history

\* The engine driven directly through its operations; process_file is idle.
Next ==
    \/ \E size \in Sizes, data \in Datas :
           IdsLeft(size, MaxId) /\ insert(size, data) /\ UNCHANGED <<proc, frame>>
    \/ \E id \in Ids : delete(id) /\ UNCHANGED <<proc, frame>>
    \/ \E id \in Ids : Find(id) /\ UNCHANGED <<proc, frame>>
    \/ \E id \in Ids : read(id) /\ UNCHANGED <<proc, frame>>
    \/ \E id \in Ids, new_data \in NewDatas : update(id, new_data) /\ UNCHANGED <<proc, frame>>
    \/ dump /\ UNCHANGED <<proc, frame>>

Spec == Init /\ [][Next]_vars

\* ------------------------------------------- allocate/release workload
\* Number of identifiers insert issues in the allocate/release workload.
MaxReuseId == 3

\* A caller that only allocates and releases: two blocks of one length are
\* in the free index and a further insert follows only after three inserts.
ReuseNext ==
    \/ \E size \in Sizes, data \in Datas :
           IdsLeft(size, MaxReuseId) /\ insert(size, data) /\ UNCHANGED <<proc, frame>>
    \/ \E id \in 0..MaxReuseId : delete(id) /\ UNCHANGED <<proc, frame>>

ReuseSpec == Init /\ [][ReuseNext]_vars

\* ------------------------------------------------- next_largest (lib.rs)
\* Scaled-down width of usize in bits (64 on the targets the crate builds for).
WordBits == 4

\* usize::MAX + 1
Word == 2^WordBits

\* cargo's dev profile checks arithmetic overflow and panics; the release
\* profile does not and the product wraps.
Builds == {"debug", "release"}

\* Every value of the request: usize argument.
Requests == 0..(Word - 1)

\* next_largest(request) is entered: let mut power = 1
NextLargestInit ==
    /\ memory = [a \in 0..(MEMORY_SIZE - 1) |-> 0]
    /\ free_blocks = (MEMORY_SIZE :> <<MemoryBlock(0, MEMORY_SIZE, FALSE, None)>>)
    /\ allocated_blocks = <<>>
    /\ next_id = 0
    /\ panicked = FALSE
    /\ last = Call("new", 0, <<>>, None, "ok", <<>>, 0)
    /\ issued = <<>>
    /\ reqSum = 0
    /\ oomSeen = FALSE
    /\ released = {}
    /\ proc = [pc |-> "reading", line |-> <<>>, diag |-> "none", called |-> FALSE]
    /\ frame \in [request : Requests, power : {1}, pc : {"loop"}, build : Builds]

\* while power < request { power *= 2; }
next_largest_loop ==
    /\ frame.pc = "loop"
    /\ frame.power < frame.request
    /\ frame' = IF frame.power * 2 >= Word /\ frame.build = "debug"
                THEN [frame EXCEPT !.pc = "panicked"]
                ELSE [frame EXCEPT !.power = (frame.power * 2) % Word]
    /\ UNCHANGED <<memory, free_blocks, allocated_blocks, next_id, panicked, last, proc>>
    /\ UNCHANGED history

\* the loop condition is false: return power
next_largest_return ==
    /\ frame.pc = "loop"
    /\ ~(frame.power < frame.request)
    /\ frame' = [frame EXCEPT !.pc = "done"]
    /\ UNCHANGED <<memory, free_blocks, allocated_blocks, next_id, panicked, last, proc>>
    /\ UNCHANGED history

NextLargestNext ==
    \/ next_largest_loop
    \/ next_largest_return

NextLargestSpec == NextLargestInit /\ [][NextLargestNext]_vars

\* ------------------------------------------------- process_file (proc.rs)
\* Most tokens after the verb that a script line of the model carries.
MaxArgs == 2

\* The tokens a line is built from, as their bytes: "0", "2" and "ab".
Tokens == {<<48>>, <<50>>, <<97, 98>>}

Verbs == {"INSERT", "DELETE", "FIND", "READ", "UPDATE", "DUMP"}

RECURSIVE TokenSeqs(_)
TokenSeqs(n) ==
    IF n = 0 THEN {<<>>}
    ELSE LET S == TokenSeqs(n - 1)
         IN S \cup {Append(a, t) : a \in {x \in S : Len(x) = n - 1}, t \in Tokens}

\* line.split_whitespace().collect(): the empty line, or a first token (one of
\* the verbs or some other word) followed by up to MaxArgs tokens.
Lines == {<<>>} \cup {<<v>> \o a : v \in Verbs \cup {"BOGUS"}, a \in TokenSeqs(MaxArgs)}

RECURSIVE Decimal(_)
\* The value of a string of ASCII digits.
Decimal(t) ==
    IF t = <<>> THEN 0 ELSE 10 * Decimal(SubSeq(t, 1, Len(t) - 1)) + (t[Len(t)] - 48)

\* token.parse::<usize>(): <<n>> is Ok(n), <<>> is Err; an optional '+' and
\* then at least one digit, nothing else.
ParseUsize(t) ==
    LET digits == IF t # <<>> /\ t[1] = 43 THEN SubSeq(t, 2, Len(t)) ELSE t
    IN IF digits # <<>> /\ \A i \in 1..Len(digits) : digits[i] \in 48..57
       THEN <<Decimal(digits)>>
       ELSE <<>>

\* What process_file has printed for the line, after "Processing line: ..".
Handled(line, diag, called) ==
    [pc |-> "reading", line |-> line, diag |-> diag, called |-> called]

\* A line for which process_file calls no engine operation.
Skip(line, diag) ==
    /\ proc' = Handled(line, diag, FALSE)
    /\ UNCHANGED <<memory, free_blocks, allocated_blocks, next_id, panicked, last>>
    /\ UNCHANGED history

\* One iteration of the for loop of process_file over the lines of the file.
ProcessLine(tokens) ==
    /\ proc.pc = "reading"
    /\ ~panicked
    /\ UNCHANGED frame
    /\ IF tokens = <<>> THEN Skip(tokens, "none")
       ELSE IF tokens[1] = "INSERT" THEN
            IF Len(tokens) < 3 THEN Skip(tokens, "Error: Invalid INSERT command")
            ELSE IF ParseUsize(tokens[2]) # <<>>
                 THEN /\ IdsLeft(ParseUsize(tokens[2])[1], MaxId)
                      /\ insert(ParseUsize(tokens[2])[1], tokens[3])
                      /\ proc' = Handled(tokens,
                                         IF last'.res = "ok" THEN "Allocated ID"
                                         ELSE IF last'.res = "none" THEN "Memory allocation failed"
                                         ELSE "panic",
                                         TRUE)
                 ELSE Skip(tokens, "none")
       ELSE IF tokens[1] = "DELETE" THEN
            IF Len(tokens) < 2 THEN Skip(tokens, "Error: Invalid DELETE command")
            ELSE IF ParseUsize(tokens[2]) # <<>>
                 THEN /\ delete(ParseUsize(tokens[2])[1])
                      /\ proc' = Handled(tokens,
                                         IF last'.res = "ok" THEN "Deleted ID"
                                         ELSE "Error: ID not found",
                                         TRUE)
                 ELSE Skip(tokens, "none")
       ELSE IF tokens[1] = "FIND" THEN
            IF Len(tokens) < 2 THEN Skip(tokens, "Error: Invalid FIND command")
            ELSE IF ParseUsize(tokens[2]) # <<>>
                 THEN /\ Find(ParseUsize(tokens[2])[1])
                      /\ proc' = Handled(tokens,
                                         IF last'.res = "ok" THEN "Data at" ELSE "Nothing at",
                                         TRUE)
                 ELSE Skip(tokens, "none")
       ELSE IF tokens[1] = "READ" THEN
            IF Len(tokens) = 2
            THEN IF ParseUsize(tokens[2]) # <<>>
                 THEN /\ read(ParseUsize(tokens[2])[1])
                      /\ proc' = Handled(tokens,
                                         IF last'.res = "ok" THEN "Data at ID"
                                         ELSE "Error: ID not found",
                                         TRUE)
                 ELSE Skip(tokens, "Invalid READ command format")
            ELSE Skip(tokens, "none")
       ELSE IF tokens[1] = "UPDATE" THEN
            IF Len(tokens) < 3 THEN Skip(tokens, "Error: Invalid UPDATE command")
            ELSE IF ParseUsize(tokens[2]) # <<>>
                 THEN /\ update(ParseUsize(tokens[2])[1], tokens[3])
                      /\ proc' = Handled(tokens,
                                         IF last'.res = "ok" THEN "Updated ID"
                                         ELSE IF last'.res = "toolarge"
                                              THEN "Error: New data exceeds allocated block size"
                                              ELSE "Error: ID not found",
                                         TRUE)
                 ELSE Skip(tokens, "none")
       ELSE IF tokens[1] = "DUMP" THEN
            /\ dump
            /\ proc' = Handled(tokens, "Memory Dump:", TRUE)
       ELSE Skip(tokens, "Error: Unknown command")

\* The lines are exhausted: process_file returns Ok(()).
Return ==
    /\ proc.pc = "reading"
    /\ ~panicked
    /\ proc' = [proc EXCEPT !.pc = "returned"]
    /\ UNCHANGED frame
    /\ UNCHANGED <<memory, free_blocks, allocated_blocks, next_id, panicked, last>>
    /\ UNCHANGED history

\* The engine driven by process_file over an arbitrary script.
ProcNext ==
    \/ \E tokens \in Lines : ProcessLine(tokens)
    \/ Return

ProcSpec == Init /\ [][ProcNext]_vars

\* ------------------------------------------------------------ properties
\* Every free block with its place in the index, and every allocated id.
FreeHandles(fb) == {<<k, i>> \in (DOMAIN fb) \X (1..(MEMORY_SIZE + MaxId + 1)) : i <= Len(fb[k])}

Handles == {<<"free", h>> : h \in FreeHandles(free_blocks)}
           \cup {<<"allocated", id>> : id \in DOMAIN allocated_blocks}

BlockOf(h) ==
    IF h[1] = "free" THEN free_blocks[h[2][1]][h[2][2]] ELSE allocated_blocks[h[2]]

\* [start, start + size)
RangeOf(b) == {a \in 0..(MEMORY_SIZE - 1) : a >= b.start /\ a < b.start + b.size}

\* The lengths of the free blocks of an index.
FreeLengths(fb) == {fb[h[1]][h[2]].size : h \in FreeHandles(fb)}

\* How many free blocks of an index cover (start, size).
CountFree(fb, start, size) ==
    Cardinality({h \in FreeHandles(fb) :
                    fb[h[1]][h[2]].start = start /\ fb[h[1]][h[2]].size = size})

RECURSIVE SumSizes(_, _)
SumSizes(alloc, ids) ==
    IF ids = {} THEN 0
    ELSE LET id == CHOOSE x \in ids : TRUE
         IN alloc[id].size + SumSizes(alloc, ids \ {id})

\* Total length of the allocated blocks.
AllocatedTotal(alloc) == SumSizes(alloc, DOMAIN alloc)

InsertOk == last.op = "insert" /\ last.res = "ok"

\* C1 (stated as claimed): in every state reached by insert, delete, update,
\* find/read and dump calls the ranges of all free and allocated blocks are
\* pairwise disjoint, lie inside the arena, and together cover [0, MEMORY_SIZE).
C1_PartitionInvariant ==
    /\ \A g, h \in Handles : g # h => RangeOf(BlockOf(g)) \cap RangeOf(BlockOf(h)) = {}
    /\ \A h \in Handles : BlockOf(h).start + BlockOf(h).size <= MEMORY_SIZE
    /\ UNION {RangeOf(BlockOf(h)) : h \in Handles} = 0..(MEMORY_SIZE - 1)

\* C2: a successful insert(size, data) takes a free block whose length is the
\* least free-block length >= size present in the index when it is called.
C2_BestFitMinimal ==
    [][InsertOk' =>
          /\ last'.len \in FreeLengths(free_blocks)
          /\ last'.len >= last'.size
          /\ \A l \in FreeLengths(free_blocks) : l >= last'.size => l >= last'.len
          /\ \E h \in FreeHandles(free_blocks) :
                LET b == free_blocks[h[1]][h[2]]
                IN /\ b.size = last'.len
                   /\ b.start = allocated_blocks'[last'.id].start
                   /\ CountFree(free_blocks', b.start, b.size)
                        = CountFree(free_blocks, b.start, b.size)
                          - (IF last'.size = 0 /\ b.size > 0 THEN 0 ELSE 1)]_vars

\* C2 witness: an insert succeeded in a block shorter than a free block that
\* is still in the index, so a longer fitting block was passed over.
C2_Witness ==
    /\ InsertOk
    /\ \E l \in FreeLengths(free_blocks) : l > last.len

\* C3: right after insert(s, d) returned id i (so len(d) >= s), find(i) and
\* read(i) give Some view of exactly s bytes, the first s bytes of d.
C3_RoundTrip ==
    InsertOk =>
        /\ find(last.id) # <<>>
        /\ Len(find(last.id)[1]) = last.size
        /\ find(last.id)[1] = SubSeq(last.data, 1, last.size)

\* C3 witness: an insert of a non-empty block from a payload longer than the
\* requested size has just returned.
C3_Witness ==
    /\ InsertOk
    /\ last.size >= 1
    /\ Len(last.data) > last.size
    /\ find(last.id) # <<>>

\* C4: update(i, new_data) with len(new_data) = k <= n on a block of length n
\* leaves a block of length n whose first k bytes are new_data and whose other
\* n - k bytes are the bytes it held before.
C4_UpdatePreservesTail ==
    [][(last'.op = "update" /\ last'.res = "ok") =>
          LET i == last'.id
              old == findIn(memory, allocated_blocks, i)
              new == findIn(memory', allocated_blocks', i)
              k == Len(last'.data)
          IN /\ old # <<>> /\ new # <<>>
             /\ Len(new[1]) = Len(old[1])
             /\ k <= Len(old[1])
             /\ \A j \in 1..Len(old[1]) :
                   new[1][j] = IF j <= k THEN last'.data[j] ELSE old[1][j]
             /\ allocated_blocks' = allocated_blocks]_vars

\* C4 witness: an update shorter than its block has run and the byte after
\* the new data is still a payload byte (not zero).
C4_Witness ==
    /\ last.op = "update" /\ last.res = "ok"
    /\ Len(last.data) >= 1
    /\ find(last.id) # <<>>
    /\ Len(find(last.id)[1]) > Len(last.data)
    /\ find(last.id)[1][Len(last.data) + 1] \in Byte

\* C5 (stated as claimed): an insert that does not complete successfully, in
\* particular one called with len(data) < size, leaves the free index, the
\* allocated table and the id counter as they were.
C5_FailedInsertMutatesNothing ==
    [][(last'.op = "insert" /\ last'.res # "ok") =>
          UNCHANGED <<free_blocks, allocated_blocks, next_id>>]_vars

\* C6: an insert that returns None, no free block of length >= size existing,
\* leaves the arena, the free index, the allocated table and next_id unchanged.
C6_OutOfMemoryUnchanged ==
    [][(last'.op = "insert" /\ last'.res = "none") =>
          /\ \A l \in FreeLengths(free_blocks) : l < last'.size
          /\ memory' = memory
          /\ free_blocks' = free_blocks
          /\ allocated_blocks' = allocated_blocks
          /\ next_id' = next_id]_vars

\* C6 witness: an insert has returned None while blocks are allocated and
\* free bytes remain.
C6_Witness ==
    /\ last.op = "insert" /\ last.res = "none"
    /\ DOMAIN allocated_blocks # {}
    /\ \E l \in FreeLengths(free_blocks) : l >= 1

\* C7: once the sizes requested by inserts with no delete in between exceed
\* MEMORY_SIZE, one of those inserts has returned None; a None leaves the
\* engine as it was; the allocated lengths never sum to more than MEMORY_SIZE.
C7_Exhaustion ==
    [][/\ reqSum' > MEMORY_SIZE => oomSeen'
       /\ AllocatedTotal(allocated_blocks') <= MEMORY_SIZE
       /\ (last'.op = "insert" /\ last'.res = "none") => engine' = engine]_vars

\* C7 witness: inserts asked for more than MEMORY_SIZE bytes in total, some
\* succeeded and the last one returned None.
C7_Witness ==
    /\ reqSum > MEMORY_SIZE
    /\ oomSeen
    /\ last.op = "insert" /\ last.res = "none" /\ last.size <= MEMORY_SIZE
    /\ AllocatedTotal(allocated_blocks) >= 1
    /\ AllocatedTotal(allocated_blocks) + last.size > MEMORY_SIZE

\* C8: the ids returned by successful inserts are strictly increasing in call
\* order (so pairwise distinct), whatever deletes and failed inserts come
\* between them; no id is issued again after its block was released.
C8_IdentifierUniqueness ==
    /\ \A i, j \in 1..Len(issued) : i < j => issued[i] < issued[j]
    /\ \A i \in 1..Len(issued) : issued[i] < next_id
    /\ DOMAIN allocated_blocks \subseteq {issued[i] : i \in 1..Len(issued)}

\* C8 witness: an insert has just returned an id after an earlier id was released.
C8_Witness ==
    /\ InsertOk
    /\ Len(issued) >= 2
    /\ \E i \in 1..Len(issued) : issued[i] \notin DOMAIN allocated_blocks

\* C9: a successful delete(id) removes id from the allocated table and adds
\* one free block with the released (start, size); every free block already
\* in the index stays as it was, adjacent or not.
C9_ReleaseWithoutCoalescing ==
    [][(last'.op = "delete" /\ last'.res = "ok") =>
          LET id == last'.id
              b == allocated_blocks[id]
          IN /\ id \in DOMAIN allocated_blocks
             /\ allocated_blocks' = [x \in (DOMAIN allocated_blocks) \ {id} |-> allocated_blocks[x]]
             /\ DOMAIN free_blocks' = (DOMAIN free_blocks) \cup {b.size}
             /\ \A k \in DOMAIN free_blocks :
                   /\ Len(free_blocks'[k]) = Len(free_blocks[k]) + (IF k = b.size THEN 1 ELSE 0)
                   /\ \A i \in 1..Len(free_blocks[k]) : free_blocks'[k][i] = free_blocks[k][i]
             /\ LET l == free_blocks'[b.size]
                IN /\ l[Len(l)].start = b.start
                   /\ l[Len(l)].size = b.size
                   /\ l[Len(l)].allocated = FALSE
             /\ Cardinality(FreeHandles(free_blocks')) = Cardinality(FreeHandles(free_blocks)) + 1]_vars

\* C9 witness: a delete has released a block that starts where another free
\* block of the same positive length ends, and both are still in the index.
C9_Witness ==
    /\ last.op = "delete" /\ last.res = "ok" /\ last.size >= 1
    /\ last.size \in DOMAIN free_blocks
    /\ LET l == free_blocks[last.size]
       IN /\ Len(l) >= 2
          /\ \E i \in 1..(Len(l) - 1) : l[i].start + l[i].size = l[Len(l)].start

\* C10: delete, find, read and update called with an id that is not a key of
\* the allocated table report not-found and leave the arena, the free index,
\* the allocated table and next_id as they were.
C10_NotFoundUnchanged ==
    [][(last'.op \in {"delete", "find", "read", "update"}
          /\ last'.id \notin DOMAIN allocated_blocks) =>
             /\ last'.res = "notfound"
             /\ last'.view = <<>>
             /\ engine' = engine]_vars

\* C10 witness: a delete of an id that was issued and already released has
\* reported not-found.
C10_Witness ==
    /\ last.op = "delete" /\ last.res = "notfound"
    /\ \E i \in 1..Len(issued) : issued[i] = last.id
    /\ DOMAIN allocated_blocks # {}

\* C11: update(id, new_data) on an allocated id with len(new_data) greater
\* than the block's length is rejected whole: no byte of the arena is written,
\* the block keeps its (start, size), the free index and next_id stay equal.
C11_TooLargeRejected ==
    [][(/\ last'.op = "update"
        /\ last'.id \in DOMAIN allocated_blocks
        /\ Len(last'.data) > allocated_blocks[last'.id].size) =>
           /\ last'.res = "toolarge"
           /\ memory' = memory
           /\ allocated_blocks' = allocated_blocks
           /\ free_blocks' = free_blocks
           /\ next_id' = next_id]_vars

\* C11 witness: an update was rejected as too large on a non-empty block whose
\* first byte differs from the first byte of the rejected data.
C11_Witness ==
    /\ last.op = "update" /\ last.res = "toolarge"
    /\ find(last.id) # <<>>
    /\ Len(find(last.id)[1]) >= 1
    /\ find(last.id)[1][1] # last.data[1]

\* C12: find, read and dump never change the arena, the free index, the
\* allocated table or next_id, whether or not the id exists; dump prints one
\* line for every free block and one for every allocated block of the state.
C12_QueriesArePure ==
    [][(last'.op \in {"find", "read", "dump"}) =>
          /\ engine' = engine
          /\ last'.op = "dump" =>
                LET r == last'.view
                IN /\ Len(r) = Cardinality(FreeHandles(free_blocks))
                                + Cardinality(DOMAIN allocated_blocks)
                   /\ \A h \in FreeHandles(free_blocks) :
                         LET b == free_blocks[h[1]][h[2]]
                         IN Cardinality({j \in 1..Len(r) :
                                            /\ r[j].kind = "FREE"
                                            /\ r[j].start = b.start
                                            /\ r[j].size = b.size})
                              = CountFree(free_blocks, b.start, b.size)
                   /\ \A id \in DOMAIN allocated_blocks :
                         \E j \in 1..Len(r) :
                            r[j] = [kind |-> "ALLOCATED", id |-> id,
                                    start |-> allocated_blocks[id].start,
                                    size |-> allocated_blocks[id].size]]_vars

\* C12 witness: dump has printed a state with two free blocks of one length
\* and an allocated block.
C12_Witness ==
    /\ last.op = "dump"
    /\ \E k \in DOMAIN free_blocks : Len(free_blocks[k]) >= 2
    /\ DOMAIN allocated_blocks # {}
    /\ Len(last.view) >= 3

\* 1 when the condition holds, 0 otherwise.
One(c) == IF c THEN 1 ELSE 0

RECURSIVE SumFree(_, _)
SumFree(fb, hs) ==
    IF hs = {} THEN 0
    ELSE LET h == CHOOSE x \in hs : TRUE
         IN fb[h[1]][h[2]].size + SumFree(fb, hs \ {h})

\* Total number of free bytes of an index.
FreeTotal(fb) == SumFree(fb, FreeHandles(fb))

\* C15: a successful insert(size, data) that takes the free block (offset, L)
\* records the new id with range (offset, size); the free index loses that
\* block and gains exactly the block (offset + size, L - size) when L > size,
\* nothing when L = size; every other free or allocated block is unchanged.
C15_SplitOnAllocate ==
    [][InsertOk' =>
          \E h \in FreeHandles(free_blocks) :
             LET b == free_blocks[h[1]][h[2]]
                 id == last'.id
                 size == last'.size
             IN /\ b.size = last'.len
                /\ id \notin DOMAIN allocated_blocks
                /\ DOMAIN allocated_blocks' = (DOMAIN allocated_blocks) \cup {id}
                /\ allocated_blocks'[id].start = b.start
                /\ allocated_blocks'[id].size = size
                /\ \A x \in DOMAIN allocated_blocks : allocated_blocks'[x] = allocated_blocks[x]
                /\ \A st \in 0..MEMORY_SIZE, sz \in 0..MEMORY_SIZE :
                      CountFree(free_blocks', st, sz)
                        = CountFree(free_blocks, st, sz)
                          - One(st = b.start /\ sz = b.size)
                          + One(b.size > size /\ st = b.start + size /\ sz = b.size - size)]_vars

\* C15 witness: an insert has split a longer free block while another block
\* was allocated.
C15_Witness ==
    /\ InsertOk
    /\ last.size >= 1
    /\ last.len > last.size
    /\ Cardinality(DOMAIN allocated_blocks) >= 2

\* C16: insert(size, data) with len(data) >= size returns an id exactly when
\* some free block has length >= size, and None otherwise, however many free
\* bytes there are in total.
C16_SucceedsIffBlockFits ==
    [][(last'.op = "insert" /\ Len(last'.data) >= last'.size) =>
          /\ last'.res \in {"ok", "none"}
          /\ last'.res = "ok" <=> \E l \in FreeLengths(free_blocks) : l >= last'.size]_vars

\* C16 witness: an insert with enough data has returned None although the
\* free bytes, spread over shorter blocks, add up to the requested size.
C16_Witness ==
    /\ last.op = "insert" /\ last.res = "none"
    /\ last.size >= 2
    /\ Len(last.data) >= last.size
    /\ FreeTotal(free_blocks) >= last.size

\* C17: while an id stays in the allocated table its (start, size) never
\* changes, and an id leaves the table only by a successful delete of that id.
C17_StablePlacement ==
    [][\A id \in DOMAIN allocated_blocks :
          IF id \in DOMAIN allocated_blocks'
          THEN /\ allocated_blocks'[id].start = allocated_blocks[id].start
               /\ allocated_blocks'[id].size = allocated_blocks[id].size
          ELSE last'.op = "delete" /\ last'.id = id /\ last'.res = "ok"]_vars

\* C17 witness: an update with fewer bytes than its block has succeeded while
\* two blocks are allocated.
C17_Witness ==
    /\ last.op = "update" /\ last.res = "ok"
    /\ Len(last.data) < allocated_blocks[last.id].size
    /\ Cardinality(DOMAIN allocated_blocks) >= 2

\* C18: once delete(i) has succeeded, i never is a key of the allocated table
\* again; every later find, read, update and delete of i reports not-found,
\* and such a delete adds no free block.
C18_ReleasedStayDead ==
    [][\A i \in released :
          /\ i \notin DOMAIN allocated_blocks'
          /\ (last'.op \in {"find", "read", "update", "delete"} /\ last'.id = i) =>
                /\ last'.res = "notfound"
                /\ last'.view = <<>>
                /\ free_blocks' = free_blocks
                /\ memory' = memory]_vars

\* C18 witness: an update of a released id has reported not-found after a
\* later insert was given another id.
C18_Witness ==
    /\ last.op = "update" /\ last.res = "notfound"
    /\ last.id \in released
    /\ Len(last.data) >= 1
    /\ \E j \in 1..Len(issued) : issued[j] > last.id

\* C19: every key k of free_blocks maps to a non-empty list, and every block
\* under key k has size k and allocated = FALSE.
C19_FreeIndexWellFormed ==
    \A k \in DOMAIN free_blocks :
       /\ Len(free_blocks[k]) >= 1
       /\ \A i \in 1..Len(free_blocks[k]) :
             /\ free_blocks[k][i].size = k
             /\ free_blocks[k][i].allocated = FALSE

\* C19 witness: an insert has emptied the list of the length it took, and the
\* index still holds blocks under two other lengths.
C19_Witness ==
    /\ InsertOk
    /\ last.len \notin DOMAIN free_blocks
    /\ Cardinality(DOMAIN free_blocks) >= 2

\* C20 (stated as claimed): after any inserts and deletes the engine accepts,
\* size 0 included, the free index holds at most MEMORY_SIZE free blocks and
\* every free block has length >= 1.
C20_BoundedFreeIndex ==
    /\ Cardinality(FreeHandles(free_blocks)) <= MEMORY_SIZE
    /\ \A l \in FreeLengths(free_blocks) : l >= 1

\* The number of tokens (verb included) each command takes.
Arity == [v \in Verbs |-> IF v \in {"INSERT", "UPDATE"} THEN 3 ELSE IF v = "DUMP" THEN 1 ELSE 2]

\* A command line with the wrong number of tokens for its verb, or whose
\* id/size token is not a number.
Malformed(line) ==
    /\ line # <<>>
    /\ line[1] \in Verbs
    /\ \/ Len(line) # Arity[line[1]]
       \/ line[1] # "DUMP" /\ Len(line) >= 2 /\ ParseUsize(line[2]) = <<>>

\* The diagnostics process_file prints for a line it rejects.
Diagnostics ==
    {"Error: Invalid INSERT command", "Error: Invalid DELETE command",
     "Error: Invalid FIND command", "Invalid READ command format",
     "Error: Invalid UPDATE command", "Error: Unknown command"}

\* C13 (stated as claimed): for every malformed line process_file handles, no
\* engine operation is called, the engine stays as it was, a diagnostic is
\* printed, and process_file goes on reading.
C13_MalformedLinesSkipped ==
    [][(proc'.pc = "reading" /\ Malformed(proc'.line)) =>
          /\ ~proc'.called
          /\ engine' = engine
          /\ proc'.diag \in Diagnostics
          /\ ~panicked']_vars

\* C14 (stated as claimed): no command line stops process_file from
\* dispatching the lines after it: process_file never is left unfinished by a
\* panic of the engine.
C14_DispatcherNeverDies ==
    ~(proc.pc = "reading" /\ panicked)

\* C21: the engine returned by new() has exactly one free block, (start 0,
\* size MEMORY_SIZE), an empty allocated table and next_id 0; the first insert
\* that succeeds returns id 0 and places its block at offset 0.
C21_InitialState ==
    /\ last.op = "new" =>
           /\ free_blocks = (MEMORY_SIZE :> <<MemoryBlock(0, MEMORY_SIZE, FALSE, None)>>)
           /\ allocated_blocks = <<>>
           /\ next_id = 0
    /\ Len(issued) >= 1 => issued[1] = 0
    /\ (last.op = "insert" /\ last.res = "ok" /\ Len(issued) = 1) =>
           /\ last.id = 0
           /\ allocated_blocks[0].start = 0

\* C21 witness: the first insert that succeeded took at least one byte, after
\* an earlier insert had returned None.
C21_Witness ==
    /\ last.op = "insert" /\ last.res = "ok" /\ last.size >= 1
    /\ Len(issued) = 1
    /\ oomSeen

\* C22: while id i stays allocated, the bytes find(i) returns are changed by
\* no call other than update(i, _): not by an insert, a delete of another id
\* or an update of another id, whether the call succeeds or fails.
C22_BlockIsolation ==
    [][\A i \in DOMAIN allocated_blocks \cap DOMAIN allocated_blocks' :
           ~(last'.op = "update" /\ last'.id = i) =>
               findIn(memory', allocated_blocks', i) = findIn(memory, allocated_blocks, i)]_vars

\* C22 witness: an update has filled the whole of its block with new bytes
\* while another allocated block of at least one byte starts right after it.
C22_Witness ==
    /\ last.op = "update" /\ last.res = "ok" /\ Len(last.data) >= 1
    /\ last.id \in DOMAIN allocated_blocks
    /\ Len(last.data) = allocated_blocks[last.id].size
    /\ \E i \in DOMAIN allocated_blocks :
           /\ i # last.id
           /\ allocated_blocks[i].size >= 1
           /\ allocated_blocks[i].start =
                  allocated_blocks[last.id].start + allocated_blocks[last.id].size

\* The insert of this step took a block out of the list of length k.
TookFrom(k) ==
    /\ last'.op = "insert" /\ last'.res \in {"ok", "panic"}
    /\ last'.len = k

\* C23: among the free blocks of the chosen length insert takes the one at the
\* front of that length's list, and that one is the block added to the free
\* index earliest: on every step the blocks that stay in a list keep their
\* order at its front, so whatever the step adds comes behind them.
C23_OldestFirst ==
    [][/\ (last'.op = "insert" /\ last'.res = "ok") =>
              /\ last'.len \in DOMAIN free_blocks
              /\ allocated_blocks'[last'.id].start = free_blocks[last'.len][1].start
       /\ \A k \in DOMAIN free_blocks :
              LET kept == IF TookFrom(k) THEN Tail(free_blocks[k]) ELSE free_blocks[k]
              IN kept # <<>> =>
                     /\ k \in DOMAIN free_blocks'
                     /\ Len(free_blocks'[k]) >= Len(kept)
                     /\ SubSeq(free_blocks'[k], 1, Len(kept)) = kept]_vars

\* C23 witness: an insert was an exact fit for a length of which the free
\* index held several blocks, and the one it took lies at a higher offset than
\* one it left: the older block went first, not the lower one.
C23_Witness ==
    /\ last.op = "insert" /\ last.res = "ok"
    /\ last.size >= 1 /\ last.size = last.len
    /\ last.len \in DOMAIN free_blocks
    /\ \E i \in 1..Len(free_blocks[last.len]) :
           free_blocks[last.len][i].start < allocated_blocks[last.id].start

IsPowerOfTwo(p) == \E e \in 0..WordBits : p = 2^e

\* C24 (stated as claimed): for every request of the word, next_largest goes
\* on until it returns (it neither panics nor is left in the loop with no
\* step that changes anything), and what it returns is the smallest power of
\* two that is >= request.
C24_NextLargest ==
    /\ frame.pc # "panicked"
    /\ frame.pc = "loop" => ENABLED <<NextLargestNext>>_vars
    /\ frame.pc = "done" =>
           /\ IsPowerOfTwo(frame.power)
           /\ frame.power >= frame.request
           /\ \A q \in 1..(frame.power - 1) : IsPowerOfTwo(q) => q < frame.request

====
